---- MODULE Spec2Model ----
(***************************************************************************)
(* cirq.study.resolver.ParamResolver: the parameter dictionary, value_of   *)
(* (exact-match shortcut and the sympy substitution loop), construction    *)
(* (__new__/__init__), __hash__ (lazy, memoized) and __eq__.               *)
(*                                                                         *)
(* Python objects are records [t, f, s, n]:                                *)
(*   t = "int" / "float"  a Python number n                                *)
(*   t = "str"            the string s                                     *)
(*   t = "sym"            a sympy expression with one free symbol: the     *)
(*                        function f applied to sympy.Symbol(s), where f   *)
(*                        is "id" (the Symbol itself), "neg" (-s),         *)
(*                        "abs" (Abs(s)) or "negabs" (-Abs(s))             *)
(*   t = "snum"           a sympy number n (no free symbols)               *)
(*   t = "other"          an object that is no number, str or sympy.Basic  *)
(*   t = "none"           None                                             *)
(*   t = "bool"           True (n = 1) or False (n = 0)                    *)
(*   t = "res"            a reference to the ParamResolver object n        *)
(* The expressions are closed under substitution: sympy evaluates -(-s) to *)
(* s, Abs(-s) and Abs(Abs(s)) to Abs(s).                                   *)
(***************************************************************************)
EXTENDS Integers, Sequences, FiniteSets, TLC

VARIABLES
    dicts,  \* the dict objects of the heap, by identity
    objs,   \* the ParamResolver objects: [param_dict, param_hash]
    built,  \* per resolver, the entries of its table when it was constructed
    pc,     \* per thread, where it is in the method it runs
    self,   \* per thread, the resolver the method runs on
    arg,    \* per thread, the argument of the call
    value,  \* per thread, value_of's local `value`
    hval,   \* per thread, the hash __hash__ has computed and not yet stored
    ret,    \* per thread, what the last call returned
    op      \* per thread, the last call: [kind, a, b]

vars == <<dicts, objs, built, pc, self, arg, value, hval, ret, op>>

---------------------------------------------------------------------------
(* Bounds of the model. *)

\* Entries of a parameter dictionary in the resolution specifications.
MaxEntries == 2
\* Entries of a parameter dictionary in the chain specification.
MaxChain == 3
\* ParamResolver objects on the heap.
MaxHeap == 2
\* Threads sharing one resolver.
NumThreads == 2

---------------------------------------------------------------------------
(* Python values. *)

Obj(t, f, s, n) == [t |-> t, f |-> f, s |-> s, n |-> n]
PyInt(n) == Obj("int", "", "", n)
PyFloat(n) == Obj("float", "", "", n)
PyStr(s) == Obj("str", "", s, 0)
Expr(f, s) == Obj("sym", f, s, 0)
Symbol(s) == Expr("id", s)
SNum(n) == Obj("snum", "", "", n)
Other == Obj("other", "", "", 0)
None == Obj("none", "", "", 0)

\* Names in the order sympy sorts the symbols of a substitution.
NameOrder == <<"x", "y", "z">>
Names == {"x", "y"}
ChainNames == {"x", "y", "z"}
Funcs == {"id", "neg", "abs", "negabs"}

IsNumber(v) == v.t \in {"int", "float"}
IsStr(v) == v.t = "str"
IsBasic(v) == v.t \in {"sym", "snum"}
IsSymbol(v) == v.t = "sym" /\ v.f = "id"

\* expr.free_symbols
FreeSymbols(v) == IF v.t = "sym" THEN {v.s} ELSE {}

AbsInt(n) == IF n < 0 THEN -n ELSE n

\* The value of function f at the number n.
ApplyNum(f, n) ==
    CASE f = "id" -> n
      [] f = "neg" -> -n
      [] f = "abs" -> AbsInt(n)
      [] f = "negabs" -> -AbsInt(n)

\* f after g, as sympy's automatic evaluation leaves it.
Compose(f, g) ==
    CASE f = "id" -> g
      [] f = "neg" -> (CASE g = "id" -> "neg"
                         [] g = "neg" -> "id"
                         [] g = "abs" -> "negabs"
                         [] g = "negabs" -> "abs")
      [] f = "abs" -> "abs"
      [] f = "negabs" -> "negabs"

\* sympify(new, strict=False): a string parses to the Symbol of that name,
\* a Python number becomes a sympy number, an expression is kept.
Sympify(v) ==
    CASE v.t = "str" -> Symbol(v.s)
      [] v.t \in {"int", "float"} -> SNum(v.n)
      [] OTHER -> v

\* expr with Symbol(s) replaced by new (one step of Basic.subs).
Replace(e, s, new) ==
    IF e.t = "sym" /\ e.s = s
    THEN IF new.t = "snum" THEN SNum(ApplyNum(e.f, new.n))
         ELSE Expr(Compose(e.f, new.f), new.s)
    ELSE e

---------------------------------------------------------------------------
(* Parameter dictionaries: sequences of <<key, value>> in insertion order, *)
(* the keys distinct.                                                      *)

KeyOf(e) == e[1]
ValOf(e) == e[2]
Items(d) == {d[i] : i \in DOMAIN d}
DictKeys(d) == {KeyOf(d[i]) : i \in DOMAIN d}
\* key in d
Contains(d, k) == k \in DictKeys(d)
\* d[key], for a key d contains
Get(d, k) == ValOf(CHOOSE e \in Items(d) : KeyOf(e) = k)

\* The symbol a key stands for in a substitution: a string key is turned
\* into the Symbol of that name.
KeyName(k) == k.s

\* The pairs Basic.subs keeps: keys and values sympified, a pair whose old
\* and new are the same dropped.
SubsPairs(d) ==
    SelectSeq(d, LAMBDA e : Sympify(ValOf(e)) # Symbol(KeyName(KeyOf(e))))

\* dict(sequence): of two pairs with the same symbol the later one stays.
\* Answers whether the name is bound, and the last binding of a bound name.
Bound(d, s) == \E i \in DOMAIN SubsPairs(d) : KeyName(KeyOf(SubsPairs(d)[i])) = s
LastBinding(d, s) ==
    LET p == SubsPairs(d)
        i == CHOOSE j \in DOMAIN p :
                 /\ KeyName(KeyOf(p[j])) = s
                 /\ \A k \in DOMAIN p : KeyName(KeyOf(p[k])) = s => k <= j
    IN  Sympify(ValOf(p[i]))

\* One replacement per bound symbol, in sorted order, each applied to the
\* result of the one before.
RECURSIVE SubsFrom(_, _, _)
SubsFrom(e, d, i) ==
    IF i > Len(NameOrder) THEN e
    ELSE LET s == NameOrder[i]
         IN  SubsFrom(IF Bound(d, s) THEN Replace(e, s, LastBinding(d, s)) ELSE e,
                      d, i + 1)

\* value.subs(self.param_dict)
Subs(e, d) == SubsFrom(e, d, 1)

---------------------------------------------------------------------------
(* value_of *)

Threads == 1 .. NumThreads

\* self.param_dict of resolver r
ParamDict(r) == dicts[objs[r].param_dict]

\* Lines 96-97: a string is shorthand for the Symbol of that name.
AsSymbol(v) == IF IsStr(v) THEN Symbol(v.s) ELSE v

\* Mutant: the shortcut looks up the Symbol only, never its name.
LookupKey_SymbolOnly(d, v) == IF IsSymbol(v) /\ Contains(d, v) THEN v ELSE None

\* Lines 100-105: the key the exact-match shortcut reads. The name string
\* is looked up after the Symbol and replaces it.
LookupKey(d, v) ==
    LET key0 == None
        key1 == IF IsSymbol(v) /\ Contains(d, v) THEN v ELSE key0
        key2 == IF IsSymbol(v) /\ Contains(d, PyStr(v.s)) THEN PyStr(v.s) ELSE key1
    IN  key2

\* Lines 106-109: whether the shortcut returns, and what.
ShortcutHits(d, v) ==
    /\ LookupKey(d, v) # None
    /\ ~(IsBasic(Get(d, LookupKey(d, v))) \/ IsStr(Get(d, LookupKey(d, v))))
ShortcutValue(d, v) == Get(d, LookupKey(d, v))

\* sympy.im(v): the expressions of the model are real.
Im(v) == 0

\* Lines 123-125: complex(v) or float(v) of a sympy number.
ToNumber(v) == IF Im(v) # 0 THEN Obj("complex", "", "", v.n) ELSE PyFloat(v.n)

\* Mutant: the loop returns after one substitution.
LoopContinues_Never(old, v) == FALSE

\* Lines 117-119: whether the loop goes round again with v.
LoopContinues(old, v) == FreeSymbols(v) # {} /\ v # old

\* Lines 117-125: what the loop returns when it stops at v.
LoopResult(v) == IF FreeSymbols(v) # {} THEN v ELSE ToNumber(v)

Return(t, r) ==
    /\ pc' = [pc EXCEPT ![t] = "done"]
    /\ ret' = [ret EXCEPT ![t] = r]

\* value_of(v) on resolver r, lines 92-115: up to the first test of the loop.
value_of(t, r, v) ==
    /\ pc[t] \in {"idle", "done"}
    /\ self' = [self EXCEPT ![t] = r]
    /\ arg' = [arg EXCEPT ![t] = v]
    /\ value' = [value EXCEPT ![t] = AsSymbol(v)]
    /\ LET sym == AsSymbol(v)
           d == ParamDict(r)
       IN  IF IsNumber(v) THEN Return(t, v)
           ELSE IF ShortcutHits(d, sym) THEN Return(t, ShortcutValue(d, sym))
           ELSE IF IsBasic(sym)
                THEN /\ pc' = [pc EXCEPT ![t] = "loop"]
                     /\ ret' = [ret EXCEPT ![t] = None]
                ELSE Return(t, sym)
    /\ op' = [op EXCEPT ![t] = [kind |-> "value_of", a |-> r, b |-> 0]]
    /\ UNCHANGED <<dicts, objs, built, hval>>

\* One round of the loop, lines 115-125.
LoopStep(t) ==
    /\ pc[t] = "loop"
    /\ LET v == Subs(value[t], ParamDict(self[t]))
       IN  IF LoopContinues(value[t], v)
           THEN /\ value' = [value EXCEPT ![t] = v]
                /\ UNCHANGED <<pc, ret>>
           ELSE /\ Return(t, LoopResult(v))
                /\ UNCHANGED value
    /\ UNCHANGED <<dicts, objs, built, self, arg, hval, op>>

---------------------------------------------------------------------------
(* The resolution specifications: one resolver over any table, one thread. *)

RECURSIVE TablesOver(_, _, _)
\* The tables of at most n entries with keys of K and values of V: every
\* insertion order, no key twice.
TablesOver(K, V, n) ==
    IF n = 0 THEN {<<>>}
    ELSE LET shorter == TablesOver(K, V, n - 1)
         IN  shorter \cup
             UNION {{Append(d, <<k, v>>) : k \in K \ DictKeys(d), v \in V} :
                    d \in shorter}

KeysOver(N) == {PyStr(s) : s \in N} \cup {Symbol(s) : s \in N}
ExprsOver(N) == {Expr(f, s) : f \in Funcs, s \in N}

TableNumbers == {PyInt(1), PyInt(2)}
Aliases(N) == {PyStr(s) : s \in N}
TableExprs == {Expr(f, s) : f \in {"neg", "abs"}, s \in Names}
Tables == TablesOver(KeysOver(Names),
                     TableNumbers \cup Aliases(Names) \cup TableExprs,
                     MaxEntries)
Inputs == {PyInt(1), PyFloat(2), Other}
              \cup Aliases(Names) \cup ExprsOver(Names)

NoOp == [kind |-> "none", a |-> 0, b |-> 0]

InitOne(T) ==
    /\ dicts \in {<<d>> : d \in T}
    /\ objs = <<[param_dict |-> 1, param_hash |-> None]>>
    /\ built = <<Items(dicts[1])>>
    /\ pc = [t \in Threads |-> "idle"]
    /\ self = [t \in Threads |-> 1]
    /\ arg = [t \in Threads |-> None]
    /\ value = [t \in Threads |-> None]
    /\ hval = [t \in Threads |-> None]
    /\ ret = [t \in Threads |-> None]
    /\ op = [t \in Threads |-> NoOp]

Init == InitOne(Tables)

Call == \E v \in Inputs : value_of(1, 1, v)
Loop == LoopStep(1)

Next == Call \/ Loop

Spec == Init /\ [][Next]_vars

\* The interpreter runs a thread that is in the loop.
FairSpec == Init /\ [][Next]_vars /\ WF_vars(Loop)

\* Tables of numbers and alias names over three names, for chains of aliases:
\* x is bound as a string or as a Symbol, y as a Symbol, z as a string.
ChainKeys == {PyStr("x"), Symbol("x"), Symbol("y"), PyStr("z")}
ChainTables == TablesOver(ChainKeys, TableNumbers \cup Aliases(ChainNames), MaxChain)
ChainInputs == Aliases(ChainNames) \cup {Symbol(s) : s \in ChainNames}

InitChain == InitOne(ChainTables)
CallChain == \E v \in ChainInputs : value_of(1, 1, v)
NextChain == CallChain \/ Loop
SpecChain == InitChain /\ [][NextChain]_vars

---------------------------------------------------------------------------
(* Construction, __hash__ and __eq__ on a heap of dicts and resolvers. *)

PyBool(b) == Obj("bool", "", "", IF b THEN 1 ELSE 0)
\* A reference to resolver o, as a Python value.
ResRef(o) == Obj("res", "", "", o)

\* hash() of a key or a value: equal numbers hash alike, a string and the
\* Symbol of the same name do not.
NameCode(s) == CHOOSE i \in DOMAIN NameOrder : NameOrder[i] = s
FuncCode(f) == CASE f = "id" -> 0 [] f = "neg" -> 1 [] f = "abs" -> 2 [] f = "negabs" -> 3
HashOf(v) ==
    CASE IsNumber(v) -> v.n
      [] IsStr(v) -> 10 + NameCode(v.s)
      [] v.t = "sym" -> 20 + NameCode(v.s) + 10 * FuncCode(v.f)
      [] OTHER -> 0

\* hash((key, value))
ItemHash(e) == 100 * HashOf(KeyOf(e)) + HashOf(ValOf(e))

RECURSIVE SumOver(_)
SumOver(S) ==
    IF S = {} THEN 0
    ELSE LET e == CHOOSE x \in S : TRUE
         IN  ItemHash(e) + SumOver(S \ {e})

\* Mutant: the hash of the entries in insertion order.
RECURSIVE OrderedHash(_)
OrderedHash(d) ==
    IF d = <<>> THEN 0
    ELSE ItemHash(d[Len(d)]) + 3 * OrderedHash(SubSeq(d, 1, Len(d) - 1))
EntriesHash_Ordered(d) == PyInt(OrderedHash(d))

\* Line 142: hash(frozenset(d.items())), a function of the set of entries.
EntriesHash(d) == PyInt(SumOver(Items(d)))

\* Python's == on keys and values: numbers by value, the rest by structure.
PyEq(a, b) == IF IsNumber(a) /\ IsNumber(b) THEN a.n = b.n ELSE a = b

\* Line 148: d1 == d2 on dicts: the same keys, each with an equal value.
DictEq(d1, d2) ==
    /\ Len(d1) = Len(d2)
    /\ \A e \in Items(d1) :
          \E e2 \in Items(d2) : PyEq(KeyOf(e), KeyOf(e2)) /\ PyEq(ValOf(e), ValOf(e2))

\* The arguments of a construction: None, a dict literal (a fresh dict of
\* the given entries), a dict object already on the heap, or a resolver.
ArgNone == [kind |-> "none", id |-> 0, table |-> <<>>]
ArgFresh(d) == [kind |-> "fresh", id |-> 0, table |-> d]
ArgDict(i) == [kind |-> "dict", id |-> i, table |-> <<>>]
ArgRes(o) == [kind |-> "res", id |-> o, table |-> <<>>]

\* Lines 53-55, __new__: the resolver passed in, or a new object.
NewObject(a) == IF a.kind = "res" THEN a.id ELSE Len(objs) + 1

\* Mutant: __init__ without its guard.
AlreadyInitialized_Never(o) == FALSE

\* Line 59: hasattr(self, 'param_dict').
AlreadyInitialized(o) == o \in DOMAIN objs

\* The dict objects after the call: a dict literal and the {} of line 64
\* are new objects.
DictsAfter(a) ==
    CASE a.kind = "none" -> Append(dicts, <<>>)
      [] a.kind = "fresh" -> Append(dicts, a.table)
      [] OTHER -> dicts

\* Lines 62-64: the fields __init__ sets on self.
InitFields(a) ==
    [param_hash |-> None,
     param_dict |-> CASE a.kind \in {"none", "fresh"} -> Len(dicts) + 1
                      [] a.kind = "dict" -> a.id
                      [] OTHER -> 0]

\* Lines 57-64, __init__ on object o.
ObjsAfterInit(o, a) ==
    IF AlreadyInitialized(o) THEN objs
    ELSE IF o \in DOMAIN objs THEN [objs EXCEPT ![o] = InitFields(a)]
         ELSE Append(objs, InitFields(a))

\* ParamResolver(a): __new__, then __init__ on what it returned.
Construct(t, a) ==
    /\ pc[t] \in {"idle", "done"}
    /\ a.kind # "res" => Len(objs) < MaxHeap
    /\ a.kind = "dict" => a.id \in DOMAIN dicts
    /\ a.kind = "res" => a.id \in DOMAIN objs
    /\ LET o == NewObject(a)
       IN  /\ objs' = ObjsAfterInit(o, a)
           /\ dicts' = DictsAfter(a)
           /\ built' = IF o \in DOMAIN built THEN built
                       ELSE Append(built, Items(dicts'[objs'[o].param_dict]))
           /\ ret' = [ret EXCEPT ![t] = ResRef(o)]
           /\ op' = [op EXCEPT ![t] = [kind |-> a.kind, a |-> a.id, b |-> o]]
    /\ pc' = [pc EXCEPT ![t] = "done"]
    /\ UNCHANGED <<self, arg, value, hval>>

\* Mutant: the test of line 141 inverted.
NeedsCompute_Inverted(r) == objs[r].param_hash # None

\* Line 141: self._param_hash is None.
NeedsCompute(r) == objs[r].param_hash = None

\* __hash__ on resolver r, line 141: the test of the memoized field.
HashCall(t, r) ==
    /\ pc[t] \in {"idle", "done"}
    /\ r \in DOMAIN objs
    /\ self' = [self EXCEPT ![t] = r]
    /\ op' = [op EXCEPT ![t] = [kind |-> "hash", a |-> r, b |-> 0]]
    /\ pc' = [pc EXCEPT ![t] = IF NeedsCompute(r) THEN "compute" ELSE "hashret"]
    /\ ret' = [ret EXCEPT ![t] = None]
    /\ UNCHANGED <<dicts, objs, built, arg, value, hval>>

\* Line 142, right-hand side: the hash of the entries as they are now.
HashCompute(t) ==
    /\ pc[t] = "compute"
    /\ hval' = [hval EXCEPT ![t] = EntriesHash(ParamDict(self[t]))]
    /\ pc' = [pc EXCEPT ![t] = "store"]
    /\ UNCHANGED <<dicts, objs, built, self, arg, value, ret, op>>

\* Line 142, the assignment to self._param_hash.
HashStore(t) ==
    /\ pc[t] = "store"
    /\ objs' = [objs EXCEPT ![self[t]].param_hash = hval[t]]
    /\ hval' = [hval EXCEPT ![t] = None]
    /\ pc' = [pc EXCEPT ![t] = "hashret"]
    /\ UNCHANGED <<dicts, built, self, arg, value, ret, op>>

\* Line 143: return self._param_hash.
HashReturn(t) ==
    /\ pc[t] = "hashret"
    /\ Return(t, objs[self[t]].param_hash)
    /\ UNCHANGED <<dicts, objs, built, self, arg, value, hval, op>>

\* r1 == r2, lines 145-148, both resolvers.
Eq(t, r1, r2) ==
    /\ pc[t] \in {"idle", "done"}
    /\ r1 \in DOMAIN objs /\ r2 \in DOMAIN objs
    /\ op' = [op EXCEPT ![t] = [kind |-> "eq", a |-> r1, b |-> r2]]
    /\ Return(t, PyBool(DictEq(ParamDict(r1), ParamDict(r2))))
    /\ UNCHANGED <<dicts, objs, built, self, arg, value, hval>>

\* d with key k set to v: in place when d has the key, appended otherwise.
DictSet(d, k, v) ==
    IF Contains(d, k)
    THEN [i \in DOMAIN d |-> IF KeyOf(d[i]) = k THEN <<k, v>> ELSE d[i]]
    ELSE Append(d, <<k, v>>)
\* d without key k.
DictDel(d, k) == SelectSeq(d, LAMBDA e : KeyOf(e) # k)

\* The caller changes a dict it passed to a constructor (the same object as
\* the resolver's public param_dict): d[k] = v.
CallerSets(t, i, k, v) ==
    /\ pc[t] \in {"idle", "done"}
    /\ i \in DOMAIN dicts
    /\ dicts' = [dicts EXCEPT ![i] = DictSet(dicts[i], k, v)]
    /\ op' = [op EXCEPT ![t] = [kind |-> "set", a |-> i, b |-> 0]]
    /\ pc' = [pc EXCEPT ![t] = "done"]
    /\ ret' = [ret EXCEPT ![t] = None]
    /\ UNCHANGED <<objs, built, self, arg, value, hval>>

\* del d[k]
CallerDeletes(t, i, k) ==
    /\ pc[t] \in {"idle", "done"}
    /\ i \in DOMAIN dicts
    /\ Contains(dicts[i], k)
    /\ dicts' = [dicts EXCEPT ![i] = DictDel(dicts[i], k)]
    /\ op' = [op EXCEPT ![t] = [kind |-> "del", a |-> i, b |-> 0]]
    /\ pc' = [pc EXCEPT ![t] = "done"]
    /\ ret' = [ret EXCEPT ![t] = None]
    /\ UNCHANGED <<objs, built, self, arg, value, hval>>

---------------------------------------------------------------------------
(* The heap specifications: one thread constructs, hashes and compares.    *)

HeapKeys == {PyStr("x"), Symbol("x")}
HeapValues == {PyInt(1), PyInt(2)}
HeapTables == TablesOver(HeapKeys, HeapValues, Cardinality(HeapKeys))

InitHeap ==
    /\ dicts = <<>>
    /\ objs = <<>>
    /\ built = <<>>
    /\ pc = [t \in Threads |-> "idle"]
    /\ self = [t \in Threads |-> 1]
    /\ arg = [t \in Threads |-> None]
    /\ value = [t \in Threads |-> None]
    /\ hval = [t \in Threads |-> None]
    /\ ret = [t \in Threads |-> None]
    /\ op = [t \in Threads |-> NoOp]

ConstructEmpty == Construct(1, ArgNone)
ConstructFromLiteral == \E d \in HeapTables : Construct(1, ArgFresh(d))
ConstructFromDict == \E i \in DOMAIN dicts : Construct(1, ArgDict(i))
Rewrap == \E o \in DOMAIN objs : Construct(1, ArgRes(o))
Hash == \E r \in DOMAIN objs : HashCall(1, r)
HashSteps == HashCompute(1) \/ HashStore(1) \/ HashReturn(1)
Compare == \E r1, r2 \in DOMAIN objs : Eq(1, r1, r2)

NextEq ==
    \/ ConstructEmpty
    \/ ConstructFromLiteral
    \/ ConstructFromDict
    \/ Rewrap
    \/ Hash
    \/ HashSteps
    \/ Compare

\* Construction, hashing and comparison, the dicts left alone by the caller.
SpecEq == InitHeap /\ [][NextEq]_vars

\* The caller's dicts hold one key.
MutKeys == {PyStr("x")}
MutTables == TablesOver(MutKeys, HeapValues, Cardinality(MutKeys))

ConstructFromOwnDict == \E d \in MutTables : Construct(1, ArgFresh(d))
Mutate ==
    \/ \E i \in DOMAIN dicts, k \in MutKeys, v \in HeapValues : CallerSets(1, i, k, v)
    \/ \E i \in DOMAIN dicts, k \in MutKeys : CallerDeletes(1, i, k)
Resolve == \E r \in DOMAIN objs, v \in Aliases({"x"}) : value_of(1, r, v)

NextObj ==
    \/ ConstructEmpty
    \/ ConstructFromOwnDict
    \/ ConstructFromDict
    \/ Rewrap
    \/ Hash
    \/ HashSteps
    \/ Compare
    \/ Mutate
    \/ Resolve
    \/ Loop

\* The same, and the caller changes the dicts it passed in.
SpecObj == InitHeap /\ [][NextObj]_vars

\* Threads sharing one resolver: each calls __hash__ and value_of.
RaceInputs == Aliases({"x"}) \cup {Symbol("x")}
ThreadHashes == \E t \in Threads : HashCall(t, 1)
ThreadHashSteps == \E t \in Threads : HashCompute(t) \/ HashStore(t) \/ HashReturn(t)
ThreadResolves == \E t \in Threads, v \in RaceInputs : value_of(t, 1, v)
ThreadLoops == \E t \in Threads : LoopStep(t)

InitRace == InitOne(HeapTables)
NextRace == ThreadHashes \/ ThreadHashSteps \/ ThreadResolves \/ ThreadLoops
SpecRace == InitRace /\ [][NextRace]_vars

---------------------------------------------------------------------------
(* Properties of value_of. *)

\* The table of the resolver thread 1 calls.
Table == ParamDict(self[1])
Done == pc[1] = "done"
IsNameArg(v) == IsStr(v) \/ IsSymbol(v)
\* The keys of d that stand for the name s: the string, the Symbol, or both.
NameKeys(d, s) == {k \in DictKeys(d) : KeyName(k) = s}
IsAlias(v) == IsStr(v) \/ IsSymbol(v)
\* Python's == on numbers: 3 == 3.0.
NumEq(a, b) == IsNumber(a) /\ IsNumber(b) /\ a.n = b.n

\* C1: value_of terminates: a call that has entered the substitution loop
\* eventually returns.
C1_ValueOfTerminates == (pc[1] = "loop") ~> (pc[1] = "done")

\* The table binds the argument's name to an expression whose only free
\* symbol is that name.
SelfReferential(d, v) ==
    /\ IsNameArg(v)
    /\ \E k \in NameKeys(d, v.s) :
          /\ Get(d, k).t = "sym"
          /\ FreeSymbols(Get(d, k)) = {v.s}

\* C2: for a self-referential binding of x, value_of(x) terminates and
\* returns an expression that still has free symbols.
C2_CycleTerminates ==
    (pc[1] = "loop" /\ SelfReferential(Table, arg[1]))
        ~> (pc[1] = "done" /\ FreeSymbols(ret[1]) # {})

RECURSIVE ChainEnd(_, _, _)
\* The number the key k leads to through aliases, None when there is none:
\* every alias name on the way is bound under exactly one key form, and no
\* name is met twice.
ChainEnd(d, k, seen) ==
    LET v == Get(d, k)
    IN  IF IsNumber(v) THEN v
        ELSE IF IsAlias(v) /\ v.s \notin seen /\ Cardinality(NameKeys(d, v.s)) = 1
             THEN ChainEnd(d, CHOOSE k2 \in NameKeys(d, v.s) : TRUE, seen \cup {v.s})
             ELSE None

RECURSIVE ChainEnds(_, _, _)
\* The numbers the key k leads to through aliases, each alias name followed
\* through any key that stands for it, no name met twice.
ChainEnds(d, k, seen) ==
    LET v == Get(d, k)
    IN  IF IsNumber(v) THEN {v}
        ELSE IF IsAlias(v) /\ v.s \notin seen
             THEN UNION {ChainEnds(d, k2, seen \cup {v.s}) : k2 \in NameKeys(d, v.s)}
             ELSE {}

\* C3: whenever a key is bound to an alias that leads, through bound keys
\* and without meeting a name twice, to a number c, value_of of that key
\* returns c as a number.
C3_ChainAnyKey ==
    (Done /\ IsNameArg(arg[1])) =>
        \A k \in NameKeys(Table, arg[1].s) :
            (IsSymbol(arg[1]) => k = arg[1]) /\ IsAlias(Get(Table, k)) =>
                \A c \in ChainEnds(Table, k, {KeyName(k)}) : NumEq(ret[1], c)

\* C3 on the tables that bind no name of the chain twice: when every name
\* of the chain, the first included, is bound under one key form only,
\* value_of of the first name returns the number at the end of the chain.
C3_ChainOneForm ==
    (Done /\ IsNameArg(arg[1]) /\ Cardinality(NameKeys(Table, arg[1].s)) = 1) =>
        LET k == CHOOSE k2 \in NameKeys(Table, arg[1].s) : TRUE
        IN  (IsAlias(Get(Table, k)) /\ ChainEnd(Table, k, {KeyName(k)}) # None)
                => NumEq(ret[1], ChainEnd(Table, k, {KeyName(k)}))

\* A chain of two aliases listed against the sorted order, so that every
\* round of the loop follows one link: z -> y -> x -> 2.
C3_Witness ==
    /\ Done
    /\ arg[1] = PyStr("z")
    /\ Table = <<<<PyStr("z"), PyStr("y")>>, <<Symbol("y"), PyStr("x")>>,
                 <<PyStr("x"), PyInt(2)>>>>
    /\ ret[1] = PyFloat(2)

\* C4: when exactly one key form of a name is bound, and to a number c,
\* value_of of the string and value_of of the Symbol both return c itself.
C4_StringSymbolEquivalence ==
    (Done /\ IsNameArg(arg[1]) /\ Cardinality(NameKeys(Table, arg[1].s)) = 1) =>
        LET k == CHOOSE k2 \in NameKeys(Table, arg[1].s) : TRUE
        IN  IsNumber(Get(Table, k)) => ret[1] = Get(Table, k)

\* The Symbol asked of a table that binds the string, answered with its number.
C4_Witness ==
    /\ Done
    /\ IsSymbol(arg[1])
    /\ NameKeys(Table, arg[1].s) = {PyStr(arg[1].s)}
    /\ IsNumber(Get(Table, PyStr(arg[1].s)))
    /\ ret[1] = Get(Table, PyStr(arg[1].s))

\* C5: when the Symbol and its name string are both keys, bound to
\* different numbers, value_of(Symbol) returns the number bound to the Symbol.
C5_SymbolKeyWins ==
    (/\ Done
     /\ IsSymbol(arg[1])
     /\ NameKeys(Table, arg[1].s) = {arg[1], PyStr(arg[1].s)}
     /\ IsNumber(Get(Table, arg[1]))
     /\ IsNumber(Get(Table, PyStr(arg[1].s)))
     /\ Get(Table, arg[1]) # Get(Table, PyStr(arg[1].s)))
        => ret[1] = Get(Table, arg[1])

\* The call of thread 1 got past the shortcut and into the loop.
WentThroughLoop ==
    IsBasic(AsSymbol(arg[1])) /\ ~ShortcutHits(Table, AsSymbol(arg[1]))

\* C10: a returned expression has free symbols left and is a fixed point of
\* the substitution; the loop stops either at a substitution that changed
\* nothing, returning that expression, or at one that left no free symbol,
\* returning a number.
C10_PartialResultsAreFixedPoints ==
    Done =>
        /\ IsBasic(ret[1]) => FreeSymbols(ret[1]) # {} /\ Subs(ret[1], Table) = ret[1]
        /\ WentThroughLoop =>
              IF FreeSymbols(Subs(value[1], Table)) = {}
              THEN IsNumber(ret[1])
              ELSE ret[1] = value[1] /\ Subs(value[1], Table) = value[1]

\* A name bound to an expression, resolved to an expression other than the
\* name itself, which the substitution leaves as it is.
C10_Witness ==
    /\ Done
    /\ arg[1] = PyStr("x")
    /\ Contains(Table, PyStr("x"))
    /\ Get(Table, PyStr("x")).t = "sym"
    /\ ret[1].t = "sym"
    /\ ret[1] # Symbol("x")

---------------------------------------------------------------------------
(* Properties of construction, __eq__ and __hash__. *)

Cache(r) == objs[r].param_hash
Returned(t, kind) == pc[t] = "done" /\ op[t].kind = kind

IsConstruction(kind) == kind \in {"none", "fresh", "dict"}

\* C7: a construction from a resolver returns that resolver and changes no
\* object; a construction from a dict or from nothing returns an object
\* that did not exist, and leaves the others as they were.
C7_IdentityReuse ==
    [][pc[1] \in {"idle", "done"} =>
          /\ op'[1].kind = "res" =>
                /\ ret'[1] = ResRef(op'[1].a)
                /\ UNCHANGED <<objs, dicts, built>>
          /\ IsConstruction(op'[1].kind) =>
                /\ op'[1].b \notin DOMAIN objs
                /\ op'[1].b \in DOMAIN objs'
                /\ ret'[1] = ResRef(op'[1].b)
                /\ \A o \in DOMAIN objs : objs'[o] = objs[o]]_vars

\* A resolver with its hash memoized, wrapped again.
C7_Witness ==
    /\ Returned(1, "res")
    /\ Cache(op[1].a) # None
    /\ ret[1] = ResRef(op[1].a)

\* C8: the table of a resolver stays the one it was constructed with, and
\* the memoized hash, once set, is the hash of the table's entries.
C8_HashNeverStale ==
    \A r \in DOMAIN objs :
        /\ Items(ParamDict(r)) = built[r]
        /\ Cache(r) # None => Cache(r) = EntriesHash(ParamDict(r))

\* C9: with threads interleaved on one resolver, the memoized field holds
\* None or the hash of the entries, and every __hash__ call returns that hash.
C9_HashRaceSafe ==
    /\ Cache(1) \in {None, EntriesHash(ParamDict(1))}
    /\ \A t \in Threads : Returned(t, "hash") => ret[t] = EntriesHash(ParamDict(1))

\* Two threads both found the field unset: one has stored and returned, the
\* other is about to store again.
C9_Witness ==
    \E t, u \in Threads :
        /\ Returned(t, "hash")
        /\ ret[t] = EntriesHash(ParamDict(1))
        /\ pc[u] = "store"
        /\ Len(ParamDict(1)) > 0

====
